---- MODULE Spec2Model ----
(***************************************************************************)
(* A model of src/main.py: the scraping pipeline behind POST /scrape.      *)
(*                                                                         *)
(*   Scraper.fetch_page      up to three GETs with a blocking backoff      *)
(*   Scraper.scrape_products pages 1..page_limit, every card of a page     *)
(*   scrape_data             cache lookup, Storage append, Cache.set,      *)
(*                           the notification and the response              *)
(*                                                                         *)
(* Texts are sequences of one-character strings so that strip(),           *)
(* replace('$', '') and float() are computed, not assumed.  A float is a   *)
(* record [nan, cents]: the price texts drawn here have at most two        *)
(* fractional digits, so cents is exact, and NaN is the one float that is  *)
(* unequal to itself.                                                      *)
(***************************************************************************)
EXTENDS Integers, Sequences, FiniteSets, TLC

(* ---------------------------------------------------------------- bounds *)

\* pages of the catalogue, all of which a request asks for
MaxPages == 2
\* product cards in the whole catalogue
MaxCards == 2
\* invocations of scrape_data, one after the other
MaxRuns == 2
\* GETs that fail, over all invocations
MaxFailures == 3

(* ------------------------------------------------------------- constants *)

CACHE_EXPIRY == 3600
\* range(3) in fetch_page
MaxAttempts == 3

TickStep == CACHE_EXPIRY \div 2

(* ------------------------------------------------------------------ text *)

Digits == {"0", "1", "2", "3", "4", "5", "6", "7", "8", "9"}

DigitVal(c) ==
    CASE c = "0" -> 0 [] c = "1" -> 1 [] c = "2" -> 2 [] c = "3" -> 3
      [] c = "4" -> 4 [] c = "5" -> 5 [] c = "6" -> 6 [] c = "7" -> 7
      [] c = "8" -> 8 [] c = "9" -> 9

RECURSIVE LStrip(_)
LStrip(s) == IF s # <<>> /\ Head(s) = " " THEN LStrip(Tail(s)) ELSE s

RECURSIVE RStrip(_)
RStrip(s) ==
    IF s # <<>> /\ s[Len(s)] = " " THEN RStrip(SubSeq(s, 1, Len(s) - 1)) ELSE s

\* str.strip()
Strip(s) == RStrip(LStrip(s))

\* str.replace('$', '')
RECURSIVE ReplaceDollar(_)
ReplaceDollar(s) ==
    IF s = <<>> THEN <<>>
    ELSE IF Head(s) = "$" THEN ReplaceDollar(Tail(s))
    ELSE <<Head(s)>> \o ReplaceDollar(Tail(s))

RECURSIVE DigitsVal(_)
DigitsVal(s) ==
    IF s = <<>> THEN 0 ELSE 10 * DigitsVal(SubSeq(s, 1, Len(s) - 1)) + DigitVal(s[Len(s)])

AllDigits(s) == \A i \in 1..Len(s) : s[i] \in Digits

DotAt(s) == {i \in 1..Len(s) : s[i] = "."}

NaN == [nan |-> TRUE, cents |-> 0]

Num(c) == [nan |-> FALSE, cents |-> c]

\* float(text): [ok, val].  ok = FALSE is ValueError.  float() strips blanks
\* itself, reads "nan" and decimal literals; the literals drawn have at most
\* two fractional digits.
PyFloat(text) ==
    LET t == Strip(text)
        dots == DotAt(t)
    IN  IF t = <<"n", "a", "n">> THEN [ok |-> TRUE, val |-> NaN]
        ELSE IF t = <<>> THEN [ok |-> FALSE, val |-> NaN]
        ELSE IF dots = {} THEN
            IF AllDigits(t) THEN [ok |-> TRUE, val |-> Num(100 * DigitsVal(t))]
            ELSE [ok |-> FALSE, val |-> NaN]
        ELSE IF Cardinality(dots) > 1 THEN [ok |-> FALSE, val |-> NaN]
        ELSE LET d == CHOOSE i \in dots : TRUE
                 ip == SubSeq(t, 1, d - 1)
                 fp == SubSeq(t, d + 1, Len(t))
             IN  IF AllDigits(ip) /\ AllDigits(fp) /\ Len(ip) + Len(fp) > 0 /\ Len(fp) <= 2
                 THEN [ok |-> TRUE,
                       val |-> Num(100 * DigitsVal(ip)
                                   + (IF Len(fp) = 1 THEN 10 ELSE 1) * DigitsVal(fp))]
                 ELSE [ok |-> FALSE, val |-> NaN]

\* a != b on floats
FloatNe(a, b) == a.nan \/ b.nan \/ a.cents # b.cents

(* ---------------------------------------------------------------- markup *)

Elem(text) == [found |-> TRUE, text |-> text]

\* select_one() found nothing: None
NoElem == [found |-> FALSE, text |-> <<>>]

Img(src) == [found |-> TRUE, hasSrc |-> TRUE, src |-> src]

NoImg == [found |-> FALSE, hasSrc |-> FALSE, src |-> ""]

ImgNoSrc == [found |-> TRUE, hasSrc |-> FALSE, src |-> ""]

Card(t, p, i) == [title |-> t, price |-> p, image |-> i]

\* cards every field of which the code can read: the title W at 10 written
\* in two ways, W at 12, W at NaN, and G at 12
GoodCards ==
    { Card(Elem(<<"W">>), Elem(<<"$", "1", "0">>), Img("u1")),
      Card(Elem(<<" ", "W", " ">>), Elem(<<" ", "1", "0", ".", "0">>), Img("u2")),
      Card(Elem(<<"W">>), Elem(<<"$", "1", "2">>), Img("u1")),
      Card(Elem(<<"W">>), Elem(<<"n", "a", "n">>), Img("u1")),
      Card(Elem(<<"G">>), Elem(<<"$", "1", "2">>), Img("u2")) }

\* a card with a missing field: no price element
BadCards ==
    { Card(Elem(<<"W">>), NoElem, Img("u1")) }

\* more of them: a price that is no number, no title element, no image
\* element, an image without src
MoreBadCards ==
    { Card(Elem(<<"W">>), Elem(<<"a", "b", "c">>), Img("u1")),
      Card(NoElem, Elem(<<"$", "1", "0">>), Img("u1")),
      Card(Elem(<<"W">>), Elem(<<"$", "1", "0">>), NoImg),
      Card(Elem(<<"W">>), Elem(<<"$", "1", "0">>), ImgNoSrc) }

Cards == GoodCards \cup BadCards

Product(t, p, i) == [product_title |-> t, product_price |-> p, image_url |-> i]

NoProduct == Product(<<>>, NaN, "")

\* lines 51-54 for one card: [exc, rec]; exc is the exception the line raises
ExtractCard(card) ==
    IF ~card.title.found THEN [exc |-> "AttributeError", rec |-> NoProduct]
    ELSE IF ~card.price.found THEN [exc |-> "AttributeError", rec |-> NoProduct]
    ELSE LET f == PyFloat(ReplaceDollar(Strip(card.price.text)))
         IN  IF ~f.ok THEN [exc |-> "ValueError", rec |-> NoProduct]
             ELSE IF ~card.image.found THEN [exc |-> "TypeError", rec |-> NoProduct]
             ELSE IF ~card.image.hasSrc THEN [exc |-> "KeyError", rec |-> NoProduct]
             ELSE [exc |-> "none",
                   rec |-> Product(Strip(card.title.text), f.val, card.image.src)]

\* the loop of line 50 over the cards of one page, in document order: the
\* first exception leaves the loop
RECURSIVE ExtractCards(_)
ExtractCards(cards) ==
    IF cards = <<>> THEN [exc |-> "none", recs |-> <<>>]
    ELSE LET r == ExtractCard(Head(cards))
         IN  IF r.exc # "none" THEN [exc |-> r.exc, recs |-> <<>>]
             ELSE LET rest == ExtractCards(Tail(cards))
                  IN  [exc |-> rest.exc,
                       recs |-> IF rest.exc = "none" THEN <<r.rec>> \o rest.recs ELSE <<>>]

(* ---------------------------------------------------------------- source *)

\* a response body: the empty text, or a document with its product cards
Blank == [blank |-> TRUE, cards |-> <<>>]

Doc(cards) == [blank |-> FALSE, cards |-> cards]

\* the sequences of at most n cards of cs
RECURSIVE CardSeqs(_, _)
CardSeqs(cs, n) ==
    IF n = 0 THEN {<<>>}
    ELSE CardSeqs(cs, n - 1) \cup
         {<<c>> \o s : c \in cs, s \in {x \in CardSeqs(cs, n - 1) : Len(x) = n - 1}}

\* a page without a card is served as the empty text
Bodies(cs, k) == {Blank} \cup {Doc(s) : s \in CardSeqs(cs, k) \ {<<>>}}

\* catalogues of p pages holding at most k cards of cs
RECURSIVE Catalogues(_, _, _)
Catalogues(cs, p, k) ==
    IF p = 0 THEN {<<>>}
    ELSE UNION {{<<b>> \o rest : rest \in Catalogues(cs, p - 1, k - Len(b.cards))} :
                b \in Bodies(cs, k)}

Sources == Catalogues(Cards, MaxPages, MaxCards)

\* catalogues in which a card may lack any field
AllSources == Catalogues(Cards \cup MoreBadCards, MaxPages, MaxCards)

(* ----------------------------------------------------------------- state *)

VARIABLES
    source,      \* the catalogue: source[p] is the body served for ?page=p
    failures,    \* the GETs that have failed so far
    file,        \* data/products.json
    cache,       \* the Redis keys: title -> entry, with the seconds it has to live
    age,         \* title -> seconds since Cache.set last wrote the key, -1 if never
    pc,          \* where the invocation stands: "fetch" awaits the answer to a GET
    run,         \* invocations started so far
    page,        \* scrape_products: the loop variable of line 44
    products,    \* scrape_products: the list of line 43
    skipped,     \* scrape_products: the pages for which fetch_page returned None
    attempt,     \* fetch_page: the loop variable of line 31
    html,        \* what the last call of fetch_page returned
    issued,      \* this fetch_page call: the GETs issued, the one awaited included
    delays,      \* this fetch_page call: the arguments of sleep, in order
    diags,       \* this fetch_page call: the attempt numbers printed by line 38
    idx,         \* scrape_data: position of the loop of line 105 in products
    new_count,   \* scrape_data: the counter of line 103
    exc,         \* the exception that left scrape_data, "none" if none
    response,    \* what the caller receives
    notes,       \* Notifier.notify: the counts notified by this invocation
    cache0,      \* the cache when this invocation started
    file0,       \* the file when this invocation started
    prev,        \* the invocation before this one: what it scraped and how it ended
    sets,        \* scrape_data: the calls of Cache.set this invocation has made
    request,     \* the last POST /scrape: its token header and what authenticate did
    tasks,       \* invocations served by one event loop: task -> where it stands
    sleeper,     \* the task inside time.sleep, which holds the loop's thread; 0 if none
    workers,     \* invocations in worker processes of their own: worker -> where it stands
    truncated    \* the text of the file is no JSON document: a writer has opened
                 \* it and not yet written, or wrote a shorter text over a longer

envVars == <<source, failures>>

storeVars == <<file, cache, age>>

scrapeVars == <<page, products, skipped>>

fetchVars == <<attempt, html, issued, delays, diags>>

loopVars == <<idx, new_count, sets>>

outVars == <<exc, response, notes>>

startVars == <<cache0, file0, prev>>

\* the invocations that run beside each other
concVars == <<tasks, sleeper, workers, truncated>>

vars ==
    <<envVars, storeVars, pc, run, scrapeVars, fetchVars, loopVars, outVars, startVars,
      request, concVars>>

\* Scraper.page_limit: the request asks for every page of the catalogue
page_limit == Len(source)

(* ------------------------------------------------------------------ JSON *)

\* json.dumps of a product: the text Redis and the file hold
Dumps(product) == <<product.product_title, product.product_price, product.image_url>>

\* json.loads of that text; NaN is written as NaN and read back as NaN
Loads(text) == Product(text[1], text[2], text[3])

(* --------------------------------------------------------------- Storage *)

\* no file yet
NoFile == [exists |-> FALSE, data |-> <<>>]

\* Storage.load_data
load_data(f) == IF f.exists THEN [i \in 1..Len(f.data) |-> Loads(f.data[i])] ELSE <<>>

\* a faulty save_product: the file is written with the new product alone
save_productAlone(f, product) == [exists |-> TRUE, data |-> <<Dumps(product)>>]

\* Storage.save_product: read everything, append, write everything back
save_product(f, product) ==
    LET data == Append(load_data(f), product)
    IN  [exists |-> TRUE, data |-> [i \in 1..Len(data) |-> Dumps(data[i])]]

(* ----------------------------------------------------------------- Cache *)

CacheKeys == {Strip(c.title.text) : c \in {x \in Cards \cup MoreBadCards : x.title.found}}

NoEntry == [present |-> FALSE, data |-> Dumps(NoProduct), ttl |-> 0]

\* a key Redis still holds
Live(c, key) == c[key].present /\ c[key].ttl > 0

\* Cache.get: None for a key that is absent or expired
CacheGet(c, key) ==
    IF Live(c, key) THEN [none |-> FALSE, value |-> Loads(c[key].data)]
    ELSE [none |-> TRUE, value |-> NoProduct]

\* a faulty Cache.set: a key that holds a value keeps it (SET ... NX)
CacheSetAbsent(c, key, value) ==
    IF c[key].present THEN c
    ELSE [c EXCEPT ![key] = [present |-> TRUE, data |-> Dumps(value), ttl |-> CACHE_EXPIRY]]

\* Cache.set: SETEX key CACHE_EXPIRY value
CacheSet(c, key, value) ==
    [c EXCEPT ![key] = [present |-> TRUE, data |-> Dumps(value), ttl |-> CACHE_EXPIRY]]

\* a faulty Elapse: keys written without an expiry are never dropped
ElapseKeepsKeys(c, d) == c

\* d seconds pass: every key has d seconds less to live, and Redis drops the
\* keys whose time has come
Elapse(c, d) ==
    [k \in CacheKeys |->
        IF c[k].present /\ c[k].ttl > d THEN [c[k] EXCEPT !.ttl = c[k].ttl - d]
        ELSE NoEntry]

\* a faulty line 107: the whole cached record is compared, not its price
IsChangedAnyField(cached, product) == cached.none \/ cached.value # product

\* a faulty line 107: only a price that rose counts as a change
IsChangedRise(cached, product) ==
    \/ cached.none
    \/ /\ ~cached.value.product_price.nan
       /\ ~product.product_price.nan
       /\ product.product_price.cents > cached.value.product_price.cents

\* a faulty line 107: every record counts as changed
IsChangedAlways(cached, product) == TRUE

\* the condition of line 107
IsChanged(cached, product) ==
    cached.none \/ FloatNe(cached.value.product_price, product.product_price)

(* ----------------------------------------------------------- invocation *)

\* fetch_page returned None
NoneHtml == [none |-> TRUE, body |-> Blank]

Text(body) == [none |-> FALSE, body |-> body]

\* `not html`: None and the empty text are both false
Falsy(h) == h.none \/ h.body.blank

\* a faulty line 39: 2 * attempt
BackoffLinear(a) == 2 * a

\* sleep(2 ** attempt)
Backoff(a) == 2 ^ a

\* a faulty line 48: `break`, which leaves the loop of line 44
Break(p) == Len(source) + 1

\* a faulty line 48: the same page is asked for again
Repeat(p) == p

\* `continue` in the iteration of page p: the loop goes on with the next page
Continue(p) == p + 1

NoResponse == [status |-> "none", updated_count |-> 0]

\* an exception leaves the handler: the caller gets 500 Internal Server Error
Error500 == [status |-> "error", updated_count |-> 0]

\* a faulty line 113: the number of products scraped is returned
SuccessScraped(n) == [status |-> "success", updated_count |-> Len(products)]

Success(n) == [status |-> "success", updated_count |-> n]

NoPrev == [status |-> "none", products |-> <<>>]

(* -------------------------------------------------------- authentication *)

API_TOKEN == "static_token"

\* the token header of a request
Header(value) == [present |-> TRUE, value |-> value]

\* a request without the header
NoHeader == [present |-> FALSE, value |-> ""]

Tokens == {Header(API_TOKEN), Header("other_token"), Header(""), NoHeader}

\* a faulty authenticate: lines 20-21 left out, any token passes
authenticateAny(token) == IF ~token.present THEN "422" ELSE "ok"

\* the dependency of line 95.  Header(...) makes the header required: FastAPI
\* answers a request without it with 422 before authenticate is called;
\* line 20 answers a token that differs with 401
authenticate(token) ==
    IF ~token.present THEN "422"
    ELSE IF token.value # API_TOKEN THEN "401"
    ELSE "ok"

NoRequest == [token |-> NoHeader, status |-> "none"]

(* ------------------------------------------------- invocations side by side *)

\* two requests at a time
Tasks == {1, 2}

\* a task of the event loop no request has started
IdleTask == [pc |-> "idle", page |-> 0, attempt |-> 0, products |-> <<>>,
             response |-> NoResponse]

\* a worker process no request has reached.  todo: the products the loop of
\* line 105 has not reached; data: the list of line 64; returned: the
\* products for which save_product has returned
IdleWorker == [pc |-> "idle", todo |-> <<>>, data |-> <<>>, returned |-> <<>>,
               new_count |-> 0, response |-> NoResponse]

(* ------------------------------------------------------ one invocation *)

InitWith(catalogues) ==
    /\ source \in catalogues
    /\ failures = 0
    /\ file = NoFile
    /\ cache = [k \in CacheKeys |-> NoEntry]
    /\ age = [k \in CacheKeys |-> -1]
    /\ pc = "idle"
    /\ run = 0
    /\ page = 0
    /\ products = <<>>
    /\ skipped = {}
    /\ attempt = 0
    /\ html = NoneHtml
    /\ issued = 0
    /\ delays = <<>>
    /\ diags = <<>>
    /\ idx = 0
    /\ new_count = 0
    /\ sets = 0
    /\ exc = "none"
    /\ response = NoResponse
    /\ notes = <<>>
    /\ cache0 = [k \in CacheKeys |-> NoEntry]
    /\ file0 = NoFile
    /\ prev = NoPrev
    /\ request = NoRequest
    /\ tasks = [t \in Tasks |-> IdleTask]
    /\ sleeper = 0
    /\ workers = [w \in Tasks |-> IdleWorker]
    /\ truncated = FALSE

Init == InitWith(Sources)

InitCards == InitWith(AllSources)

\* a call of fetch_page up to its first await: the first GET is issued,
\* nothing slept or printed yet
EnterFetch ==
    /\ attempt' = 0
    /\ issued' = 1
    /\ delays' = <<>>
    /\ diags' = <<>>

\* no call of fetch_page is under way
LeaveFetch ==
    /\ attempt' = 0
    /\ issued' = 0
    /\ delays' = <<>>
    /\ diags' = <<>>

\* POST /scrape with a token authenticate lets through: scrape_data up to
\* the first GET of page 1
StartRun ==
    /\ pc \in {"idle", "done", "raised"}
    /\ run < MaxRuns
    /\ \E token \in Tokens :
          /\ authenticate(token) = "ok"
          /\ request' = [token |-> token, status |-> "ok"]
    /\ run' = run + 1
    /\ prev' = [status |-> pc, products |-> IF pc = "done" THEN products ELSE <<>>]
    /\ cache0' = cache
    /\ file0' = file
    /\ page' = 1
    /\ products' = <<>>
    /\ skipped' = {}
    /\ html' = NoneHtml
    /\ EnterFetch
    /\ idx' = 0
    /\ new_count' = 0
    /\ sets' = 0
    /\ exc' = "none"
    /\ response' = NoResponse
    /\ notes' = <<>>
    /\ pc' = "fetch"
    /\ UNCHANGED <<envVars, storeVars, concVars>>

\* exception e leaves fetch_page or scrape_products, and scrape_data with
\* them: their frames are gone
Raise(e) ==
    /\ exc' = e
    /\ response' = Error500
    /\ pc' = "raised"
    /\ page' = 0
    /\ products' = <<>>
    /\ skipped' = {}
    /\ html' = NoneHtml
    /\ LeaveFetch
    /\ UNCHANGED <<notes, loopVars>>

\* the loop of line 44 goes on with page n: up to the first GET of that
\* page, or, past the last page, the return of line 55 and line 103
NextPage(n) ==
    IF n <= page_limit
    THEN page' = n /\ pc' = "fetch" /\ EnterFetch /\ UNCHANGED loopVars
    ELSE /\ page' = page /\ pc' = "process" /\ LeaveFetch
         /\ idx' = 1 /\ new_count' = 0 /\ sets' = 0

\* the GET awaited answers with a success status and the empty text: line 36,
\* then lines 47-48
GetOkSkip ==
    /\ pc = "fetch"
    /\ html' = Text(source[page])
    /\ Falsy(html')
    /\ NextPage(Continue(page))
    /\ UNCHANGED <<envVars, storeVars, run, products, skipped, outVars, startVars,
                   request, concVars>>

\* the GET awaited answers with a success status and a document every card
\* of which can be read: line 36, then lines 49-54
GetOkExtract ==
    /\ pc = "fetch"
    /\ html' = Text(source[page])
    /\ ~Falsy(html')
    /\ LET r == ExtractCards(source[page].cards)
       IN  r.exc = "none" /\ products' = products \o r.recs
    /\ NextPage(page + 1)
    /\ UNCHANGED <<envVars, storeVars, run, skipped, outVars, startVars,
                   request, concVars>>

\* the GET awaited answers with a success status and a document one card of
\* which raises: line 36, then lines 49-54, and nothing catches the exception
GetOkRaise ==
    /\ pc = "fetch"
    /\ ~Falsy(Text(source[page]))
    /\ LET r == ExtractCards(source[page].cards)
       IN  r.exc # "none" /\ Raise(r.exc)
    /\ UNCHANGED <<envVars, storeVars, run, startVars,
                   request, concVars>>

\* the GET awaited fails in transport, and it was not the third: lines 37-39,
\* then the next GET
GetRequestErrorRetry ==
    /\ pc = "fetch"
    /\ failures < MaxFailures
    /\ attempt + 1 < MaxAttempts
    /\ failures' = failures + 1
    /\ diags' = Append(diags, attempt + 1)
    /\ delays' = Append(delays, Backoff(attempt))
    /\ attempt' = attempt + 1
    /\ issued' = issued + 1
    /\ UNCHANGED <<source, storeVars, pc, run, scrapeVars, html, loopVars, outVars,
                   startVars,
                   request, concVars>>

\* the third GET fails in transport: lines 37-39, line 40, then lines 47-48
GetRequestErrorGiveUp ==
    /\ pc = "fetch"
    /\ failures < MaxFailures
    /\ attempt + 1 >= MaxAttempts
    /\ failures' = failures + 1
    /\ html' = NoneHtml
    /\ skipped' = skipped \cup {page}
    /\ NextPage(Continue(page))
    /\ UNCHANGED <<source, storeVars, run, products, outVars, startVars,
                   request, concVars>>

\* the GET awaited answers with an error status: raise_for_status raises
\* httpx.HTTPStatusError, which is no httpx.RequestError, so line 37 does
\* not catch it
GetStatusError ==
    /\ pc = "fetch"
    /\ failures < MaxFailures
    /\ failures' = failures + 1
    /\ Raise("HTTPStatusError")
    /\ UNCHANGED <<source, storeVars, run, startVars,
                   request, concVars>>

\* lines 106-110 for a product the condition of line 107 holds of
ProcessChanged ==
    /\ pc = "process"
    /\ idx <= Len(products)
    /\ LET product == products[idx]
           cached_product == CacheGet(cache, product.product_title)
       IN  /\ IsChanged(cached_product, product)
           /\ file' = save_product(file, product)
           /\ cache' = CacheSet(cache, product.product_title, product)
           /\ age' = [age EXCEPT ![product.product_title] = 0]
    /\ sets' = sets + 1
    /\ new_count' = new_count + 1
    /\ idx' = idx + 1
    /\ UNCHANGED <<envVars, pc, run, scrapeVars, fetchVars, outVars, startVars,
                   request, concVars>>

\* lines 106-107 for a product the condition of line 107 fails of
ProcessUnchanged ==
    /\ pc = "process"
    /\ idx <= Len(products)
    /\ LET product == products[idx]
           cached_product == CacheGet(cache, product.product_title)
       IN  ~IsChanged(cached_product, product)
    /\ idx' = idx + 1
    /\ UNCHANGED <<envVars, storeVars, pc, run, scrapeVars, fetchVars, new_count, sets,
                   outVars, startVars,
                   request, concVars>>

\* lines 112-113
Notify ==
    /\ pc = "process"
    /\ idx > Len(products)
    /\ notes' = Append(notes, new_count)
    /\ response' = Success(new_count)
    /\ pc' = "done"
    /\ UNCHANGED <<envVars, storeVars, run, scrapeVars, fetchVars, loopVars, exc,
                   startVars,
                   request, concVars>>

\* TickStep seconds pass between two invocations.  One invocation is short
\* against TickStep: no key is dropped while it runs.  Once every key written
\* has outlived CACHE_EXPIRY, more time changes nothing, and nothing reads
\* the clock after the last invocation.
Tick ==
    /\ pc \in {"idle", "done", "raised"}
    /\ run < MaxRuns
    /\ \E k \in CacheKeys : age[k] >= 0 /\ age[k] < CACHE_EXPIRY
    /\ cache' = Elapse(cache, TickStep)
    /\ age' = [k \in CacheKeys |->
                  IF age[k] < 0 THEN age[k]
                  ELSE IF age[k] + TickStep > CACHE_EXPIRY THEN CACHE_EXPIRY
                  ELSE age[k] + TickStep]
    /\ UNCHANGED <<envVars, file, pc, run, scrapeVars, fetchVars, loopVars, outVars,
                   startVars,
                   request, concVars>>

Next ==
    \/ StartRun
    \/ GetOkSkip
    \/ GetOkExtract
    \/ GetOkRaise
    \/ GetRequestErrorRetry
    \/ GetRequestErrorGiveUp
    \/ GetStatusError
    \/ ProcessChanged
    \/ ProcessUnchanged
    \/ Notify
    \/ Tick

Spec == Init /\ [][Next]_vars

\* the same invocations over the catalogues in which a card may lack any field
SpecCards == InitCards /\ [][Next]_vars

(* ----------------------------------------------- a run without failures *)

\* the bodies of the pages of cat that are not in skip, in page order
RECURSIVE Kept(_, _)
Kept(cat, skip) ==
    IF cat = <<>> THEN <<>>
    ELSE Kept(SubSeq(cat, 1, Len(cat) - 1), skip)
         \o (IF Len(cat) \in skip THEN <<>> ELSE <<cat[Len(cat)]>>)

\* scrape_products over pages that are all fetched and all readable: the
\* records of every page, in page order
RECURSIVE ScrapeAll(_)
ScrapeAll(bodies) ==
    IF bodies = <<>> THEN <<>>
    ELSE ExtractCards(Head(bodies).cards).recs \o ScrapeAll(Tail(bodies))

\* the loop of lines 105-110 over recs from cache c: the counter, the
\* products saved, in order, and the cache it leaves
RECURSIVE Detect(_, _)
Detect(recs, c) ==
    IF recs = <<>> THEN [count |-> 0, saved |-> <<>>, cache |-> c]
    ELSE LET product == Head(recs)
             hit == IsChanged(CacheGet(c, product.product_title), product)
             rest == Detect(Tail(recs),
                            IF hit THEN CacheSet(c, product.product_title, product) ELSE c)
         IN  IF hit
             THEN [count |-> rest.count + 1, saved |-> <<product>> \o rest.saved,
                   cache |-> rest.cache]
             ELSE rest

(* -------------------------------------------------------- one event loop *)

\* two cards every field of which can be read
PlainCards ==
    { Card(Elem(<<"W">>), Elem(<<"$", "1", "0">>), Img("u1")),
      Card(Elem(<<"G">>), Elem(<<"$", "1", "2">>), Img("u2")) }

\* catalogues with one of them
FewSources == Catalogues(PlainCards, MaxPages, 1)

InitLoop == InitWith(FewSources)

\* the variables of the one invocation at a time, which stand still here
seqVars ==
    <<age, pc, run, scrapeVars, fetchVars, loopVars, outVars, startVars, request>>

\* Storage.save_product for each of recs, in order
RECURSIVE SaveAll(_, _)
SaveAll(f, recs) ==
    IF recs = <<>> THEN f ELSE SaveAll(save_product(f, Head(recs)), Tail(recs))

\* a coroutine runs only while no other holds the thread of the loop
ThreadFree == sleeper = 0

\* task t has the products ps of pages 1..p in hand: the first GET of page
\* p + 1, or, past the last page, lines 103-113, in which nothing is awaited
TaskNextPage(t, p, ps) ==
    IF p + 1 <= page_limit
    THEN /\ tasks' = [tasks EXCEPT ![t] = [pc |-> "fetch", page |-> p + 1, attempt |-> 0,
                                           products |-> ps, response |-> NoResponse]]
         /\ UNCHANGED <<file, cache>>
    ELSE LET d == Detect(ps, cache)
         IN  /\ file' = SaveAll(file, d.saved)
             /\ cache' = d.cache
             /\ tasks' = [tasks EXCEPT ![t] = [pc |-> "done", page |-> p, attempt |-> 0,
                                               products |-> ps,
                                               response |-> Success(d.count)]]

\* the loop takes up a request: scrape_data up to the first GET of page 1
TaskStart(t) ==
    /\ ThreadFree
    /\ tasks[t].pc = "idle"
    /\ tasks' = [tasks EXCEPT ![t] = [pc |-> "fetch", page |-> 1, attempt |-> 0,
                                      products |-> <<>>, response |-> NoResponse]]
    /\ UNCHANGED <<envVars, file, cache, sleeper, workers, truncated, seqVars>>

\* the GET task t awaits answers with a success status, and the loop resumes
\* the task: line 36, lines 47-54, up to the next await or the return
TaskGetOk(t) ==
    /\ ThreadFree
    /\ tasks[t].pc = "fetch"
    /\ LET body == source[tasks[t].page]
           r == ExtractCards(body.cards)
       IN  IF Falsy(Text(body)) THEN TaskNextPage(t, tasks[t].page, tasks[t].products)
           ELSE IF r.exc = "none"
           THEN TaskNextPage(t, tasks[t].page, tasks[t].products \o r.recs)
           ELSE /\ tasks' = [tasks EXCEPT ![t] = [IdleTask EXCEPT !.pc = "raised",
                                                                  !.response = Error500]]
                /\ UNCHANGED <<file, cache>>
    /\ UNCHANGED <<envVars, sleeper, workers, truncated, seqVars>>

\* the GET task t awaits fails in transport, and the loop resumes the task:
\* lines 37-38, and line 39 calls time.sleep, which returns only when the
\* time is over and keeps the thread of the loop until then
TaskGetRequestError(t) ==
    /\ ThreadFree
    /\ tasks[t].pc = "fetch"
    /\ failures < MaxFailures
    /\ failures' = failures + 1
    /\ tasks' = [tasks EXCEPT ![t].pc = "sleep"]
    /\ sleeper' = t
    /\ UNCHANGED <<source, file, cache, workers, truncated, seqVars>>

\* the GET task t awaits answers with an error status: line 35 raises
TaskGetStatusError(t) ==
    /\ ThreadFree
    /\ tasks[t].pc = "fetch"
    /\ failures < MaxFailures
    /\ failures' = failures + 1
    /\ tasks' = [tasks EXCEPT ![t] = [IdleTask EXCEPT !.pc = "raised",
                                                       !.response = Error500]]
    /\ UNCHANGED <<source, file, cache, sleeper, workers, truncated, seqVars>>

\* time.sleep returns in task t: the next GET of line 34, or, after the third
\* attempt, line 40 and lines 47-48
TaskWake(t) ==
    /\ sleeper = t
    /\ tasks[t].pc = "sleep"
    /\ sleeper' = 0
    /\ IF tasks[t].attempt + 1 < MaxAttempts
       THEN /\ tasks' = [tasks EXCEPT ![t].pc = "fetch", ![t].attempt = tasks[t].attempt + 1]
            /\ UNCHANGED <<file, cache>>
       ELSE TaskNextPage(t, Continue(tasks[t].page) - 1, tasks[t].products)
    /\ UNCHANGED <<envVars, workers, truncated, seqVars>>

\* what task t can do
TaskStep(t) ==
    \/ TaskStart(t)
    \/ TaskGetOk(t)
    \/ TaskGetRequestError(t)
    \/ TaskGetStatusError(t)
    \/ TaskWake(t)

NextLoop == \E t \in Tasks : TaskStep(t)

SpecLoop == InitLoop /\ [][NextLoop]_vars

(* --------------------------------------------------- requests turned away *)

\* POST /scrape with a token authenticate does not let through, at any
\* moment: the dependency answers and scrape_data is not called
Refuse ==
    /\ \E token \in Tokens :
          /\ authenticate(token) # "ok"
          /\ request' = [token |-> token, status |-> authenticate(token)]
    /\ UNCHANGED <<envVars, storeVars, pc, run, scrapeVars, fetchVars, loopVars, outVars,
                   startVars, concVars>>

NextAuth == Next \/ Refuse

InitAuth == InitWith(Catalogues(PlainCards \cup BadCards, MaxPages, 1))

SpecAuth == InitAuth /\ [][NextAuth]_vars

(* ------------------------------------------------- two worker processes *)

InitWorkers == InitWith(Catalogues(PlainCards, MaxPages, MaxCards))

\* the variables the workers leave alone
workerFrame == <<envVars, age, tasks, sleeper, seqVars>>

\* worker w takes up a request and every GET is answered with the page:
\* lines 95-103
WorkerStart(w) ==
    /\ workers[w].pc = "idle"
    /\ workers' = [workers EXCEPT ![w].pc = "get", ![w].todo = ScrapeAll(source)]
    /\ UNCHANGED <<file, cache, truncated, workerFrame>>

\* lines 106-107 for the next product: the read of its key
WorkerGet(w) ==
    /\ workers[w].pc = "get"
    /\ workers[w].todo # <<>>
    /\ LET product == Head(workers[w].todo)
       IN  IF IsChanged(CacheGet(cache, product.product_title), product)
           THEN workers' = [workers EXCEPT ![w].pc = "load"]
           ELSE workers' = [workers EXCEPT ![w].todo = Tail(workers[w].todo)]
    /\ UNCHANGED <<file, cache, truncated, workerFrame>>

\* save_product, lines 64-65: the file is read, which raises
\* json.JSONDecodeError when its text is no JSON document, and the product is
\* appended to the list read
WorkerLoad(w) ==
    /\ workers[w].pc = "load"
    /\ IF truncated
       THEN workers' = [workers EXCEPT ![w].pc = "raised", ![w].response = Error500]
       ELSE workers' = [workers EXCEPT
                           ![w].pc = "open",
                           ![w].data = Append(load_data(file), Head(workers[w].todo))]
    /\ UNCHANGED <<file, cache, truncated, workerFrame>>

\* save_product, line 66: open(..., "w") empties the file
WorkerOpen(w) ==
    /\ workers[w].pc = "open"
    /\ workers' = [workers EXCEPT ![w].pc = "dump"]
    /\ truncated' = TRUE
    /\ UNCHANGED <<file, cache, workerFrame>>

\* save_product, line 67 and the close of the file: the list is written from
\* the start of the file.  Another worker may have written since line 66
\* emptied it: a text that is not shorter replaces that one, a shorter text
\* leaves the end of that one behind it.  save_product returns.
WorkerDump(w) ==
    /\ workers[w].pc = "dump"
    /\ LET data == workers[w].data
       IN  IF truncated \/ Len(data) >= Len(file.data)
           THEN /\ file' = [exists |-> TRUE, data |-> [i \in 1..Len(data) |-> Dumps(data[i])]]
                /\ truncated' = FALSE
           ELSE /\ file' = file
                /\ truncated' = TRUE
    /\ workers' = [workers EXCEPT
                      ![w].pc = "set",
                      ![w].returned = Append(workers[w].returned, Head(workers[w].todo))]
    /\ UNCHANGED <<cache, workerFrame>>

\* lines 109-110
WorkerSet(w) ==
    /\ workers[w].pc = "set"
    /\ LET product == Head(workers[w].todo)
       IN  cache' = CacheSet(cache, product.product_title, product)
    /\ workers' = [workers EXCEPT ![w].pc = "get",
                                  ![w].todo = Tail(workers[w].todo),
                                  ![w].new_count = workers[w].new_count + 1]
    /\ UNCHANGED <<file, truncated, workerFrame>>

\* lines 112-113
WorkerNotify(w) ==
    /\ workers[w].pc = "get"
    /\ workers[w].todo = <<>>
    /\ workers' = [workers EXCEPT ![w].pc = "done",
                                  ![w].response = Success(workers[w].new_count)]
    /\ UNCHANGED <<file, cache, truncated, workerFrame>>

NextWorkers ==
    \E w \in Tasks :
        \/ WorkerStart(w)
        \/ WorkerGet(w)
        \/ WorkerLoad(w)
        \/ WorkerOpen(w)
        \/ WorkerDump(w)
        \/ WorkerSet(w)
        \/ WorkerNotify(w)

SpecWorkers == InitWorkers /\ [][NextWorkers]_vars

(* ---------------------------------------------------------------- claims *)

ExtractionErrors == {"AttributeError", "ValueError", "TypeError", "KeyError"}

\* the cards of a page that have a title, a numeric price and an image source
RECURSIVE WellFormed(_)
WellFormed(cards) ==
    IF cards = <<>> THEN <<>>
    ELSE (IF ExtractCard(Head(cards)).exc = "none" THEN <<Head(cards)>> ELSE <<>>)
         \o WellFormed(Tail(cards))

\* the records of the well-formed cards of the pages, in document order
RECURSIVE WellFormedRecs(_)
WellFormedRecs(bodies) ==
    IF bodies = <<>> THEN <<>>
    ELSE ExtractCards(WellFormed(Head(bodies).cards)).recs \o WellFormedRecs(Tail(bodies))

\* any two records with the same title have numerically equal prices (a
\* record is compared with itself too: NaN equals nothing)
EqualPrices(recs) ==
    \A i, j \in 1..Len(recs) :
        recs[i].product_title = recs[j].product_title
            => ~FloatNe(recs[i].product_price, recs[j].product_price)

Titles(recs) == {recs[i].product_title : i \in 1..Len(recs)}

EmptyCache == [k \in CacheKeys |-> NoEntry]

\* this invocation has completed, the one before it completed too and
\* scraped the same records, and the key of every one of them was still live
\* when this invocation started
SecondRun ==
    /\ pc = "done"
    /\ prev.status = "done"
    /\ prev.products = products
    /\ \A i \in 1..Len(products) : Live(cache0, products[i].product_title)

\* C1, as claimed: a run repeated at once on the same source, before any key
\* expires, returns updated_count = 0 and appends nothing, whatever the source
\* (stated here for the sources whose prices are all numbers).
C1_Idempotent ==
    (SecondRun /\ \A i \in 1..Len(products) : ~products[i].product_price.nan)
        => (response.updated_count = 0 /\ file = file0)

\* C1, amended: the same, for the sources whose records of one title all have
\* numerically equal prices.
C1_IdempotentEqualPrices ==
    (SecondRun /\ EqualPrices(products)) => (response.updated_count = 0 /\ file = file0)

\* a repeated run over two records of one title and one price, which counted none
C1_Witness ==
    /\ SecondRun
    /\ EqualPrices(products)
    /\ Len(products) >= 2
    /\ products[1].product_title = products[2].product_title
    /\ response.updated_count = 0
    /\ Len(file.data) > 0

\* C2: no card aborts the run, and the records extracted are those of the
\* well-formed cards of the pages fetched, in document order.
C2_BestEffortExtraction ==
    /\ exc \notin ExtractionErrors
    /\ pc \in {"process", "done"} => products = WellFormedRecs(Kept(source, skipped))

\* C3: a GET answered with an error status is retried as a transport error
\* is, and never leaves the handler as an exception.
C3_StatusErrorIsRetried == exc # "HTTPStatusError"

\* C4: fetch_page issues at most three GETs and never raises: a run that was
\* aborted was not aborted by fetch_page, and after a page without content the
\* loop goes on.
C4_FetchNeverRaises ==
    /\ issued <= MaxAttempts
    /\ pc = "raised" => exc \in ExtractionErrors
    /\ skipped \subseteq 1..page_limit

\* the step of line 106-110 for one record
RecordStep == pc = "process" /\ idx <= Len(products) /\ idx' = idx + 1

\* what lines 108-110 do with product
Persisted(product) ==
    /\ load_data(file') = Append(load_data(file), product)
    /\ cache' = [cache EXCEPT ![product.product_title] =
                    [present |-> TRUE, data |-> Dumps(product), ttl |-> CACHE_EXPIRY]]
    /\ new_count' = new_count + 1

\* C5: a record is appended, cached and counted if and only if the cache has
\* no live entry under its title or the live entry has a numerically different
\* price; otherwise nothing is written or counted.
C5_DecisionTable ==
    [][RecordStep =>
        LET product == products[idx]
            entry == cache[product.product_title]
            absent == ~entry.present \/ entry.ttl <= 0
            differs == entry.data[2].nan \/ product.product_price.nan
                       \/ entry.data[2].cents # product.product_price.cents
        IN  IF absent \/ differs
            THEN Persisted(product)
            ELSE file' = file /\ cache' = cache /\ new_count' = new_count]_vars

\* in one run a record was judged changed for its price (the file holds its
\* title at another price) and another was judged unchanged
C5_Witness ==
    /\ pc = "process"
    /\ idx - 1 > new_count
    /\ \E i, j \in 1..Len(file.data) :
          /\ i < j
          /\ file.data[i][1] = file.data[j][1]
          /\ ~file.data[i][2].nan /\ ~file.data[j][2].nan
          /\ file.data[i][2].cents # file.data[j][2].cents

\* C6: a run in which fetch_page returned None for some pages returns the
\* count, and appends the records, of a run over the other pages alone from
\* the same cache.
C6_FailedPageContributesNothing ==
    pc = "done" =>
        LET other == Detect(ScrapeAll(Kept(source, skipped)), cache0)
        IN  /\ response.updated_count = other.count
            /\ load_data(file) = load_data(file0) \o other.saved

\* a completed run that lost a page and still found records to save
C6_Witness ==
    /\ pc = "done"
    /\ skipped # {}
    /\ \E p \in skipped : p < page_limit
    /\ response.updated_count > 0

\* C7: every run ends after page_limit iterations with a count and status
\* success, whatever failed; with every page failing the count is 0.
C7_RunReturnsCount ==
    /\ pc \in {"done", "raised"} => (response.status = "success" /\ page = page_limit)
    /\ (pc = "done" /\ skipped = 1..page_limit) => response.updated_count = 0

\* the GET awaited is answered with a success status
OkAnswer == pc = "fetch" /\ failures' = failures /\ vars' # vars

\* C8: when attempt k is the first to succeed, k + 1 GETs were issued, the
\* waits were 2^0, ..., 2^(k-1) in that order, the content of that answer is
\* returned and the call issues no further GET.
C8_RetrySchedule ==
    [][OkAnswer =>
        /\ attempt < MaxAttempts
        /\ issued = attempt + 1
        /\ delays = [i \in 1..attempt |-> 2 ^ (i - 1)]
        /\ diags = [i \in 1..attempt |-> i]
        /\ pc' # "raised" => html' = Text(source[page])
        /\ pc' = "fetch" => (page' = page + 1 /\ issued' = 1 /\ attempt' = 0)]_vars

\* page 1 was fetched at the third attempt, after two failures, and its
\* records are in hand
C8_Witness ==
    /\ run = 1
    /\ pc = "fetch"
    /\ page = 2
    /\ failures = 2
    /\ skipped = {}
    /\ html = Text(source[1])
    /\ products # <<>>

\* C9: a record whose key has outlived CACHE_EXPIRY is appended, cached with
\* a fresh time to live and counted, as a record whose key was never written.
C9_ExpiredIsNew ==
    [][RecordStep =>
        LET product == products[idx]
            a == age[product.product_title]
        IN  (a < 0 \/ a >= CACHE_EXPIRY) => Persisted(product)]_vars

\* the first record of this run was saved although the file already held its
\* title at the same price: its key had expired
C9_Witness ==
    /\ pc = "process"
    /\ idx = 2
    /\ new_count = 1
    /\ ~Live(cache0, products[1].product_title)
    /\ \E i \in 1..Len(file0.data) :
          /\ file0.data[i][1] = products[1].product_title
          /\ ~FloatNe(file0.data[i][2], products[1].product_price)

\* C10: from an empty cache, over records whose titles have one price each, a
\* run returns the number of distinct titles among the well-formed cards of
\* the pages fetched, and the run repeated at once returns 0.
C10_DistinctTitleCount ==
    /\ (/\ pc \in {"done", "raised"}
        /\ exc # "HTTPStatusError"
        /\ cache0 = EmptyCache
        /\ EqualPrices(WellFormedRecs(Kept(source, skipped))))
       => (/\ response.status = "success"
           /\ response.updated_count
                = Cardinality(Titles(WellFormedRecs(Kept(source, skipped)))))
    /\ (SecondRun /\ EqualPrices(products)) => response.updated_count = 0

\* C11: while a task waits between two attempts, another task that has a
\* request to take up, or whose GET may be answered, can take a step.
C11_BackoffDoesNotBlock ==
    \A t, u \in Tasks :
        (t # u /\ tasks[t].pc = "sleep" /\ tasks[u].pc \in {"idle", "fetch"})
            => ENABLED TaskStep(u)

\* C12: a run that completes notifies once, when every page has been fetched
\* or skipped and every record handled, with the count it returns; and it
\* appends nothing and sets no key after that.
C12_OneNotification ==
    [][/\ (pc # "done" /\ pc' = "done")
            => /\ page = page_limit
               /\ idx > Len(products)
               /\ notes = <<>>
               /\ notes' = <<response'.updated_count>>
               /\ response'.updated_count = new_count
               /\ file' = file /\ sets' = sets
       /\ (pc = "done" /\ run' = run)
            => (notes' = notes /\ file' = file /\ sets' = sets /\ response' = response)]_vars

\* a completed run that saved two records and notified the count 2 once
C12_Witness ==
    /\ pc = "done"
    /\ notes = <<2>>
    /\ response = Success(2)
    /\ sets = 2

\* the cache holds a live entry under the title of product, at its price
Unchanged(product) ==
    LET entry == cache[product.product_title]
    IN  /\ entry.present
        /\ entry.ttl > 0
        /\ ~entry.data[2].nan
        /\ ~product.product_price.nan
        /\ entry.data[2].cents = product.product_price.cents

\* C13: the step for a record judged unchanged leaves the file, every cache
\* entry with its time to live, and the counter as they are; the file is
\* appended to and Cache.set called only in the step of a record that is not.
C13_UnchangedFrame ==
    [][/\ (RecordStep /\ Unchanged(products[idx]))
            => (file' = file /\ cache' = cache /\ new_count' = new_count /\ sets' = sets)
       /\ (file' # file \/ sets' > sets)
            => (RecordStep /\ ~Unchanged(products[idx]))]_vars

\* the second run has passed a record and written nothing: the entry the
\* first run wrote is as it was
C13_Witness ==
    /\ run = 2
    /\ pc = "process"
    /\ idx = 2
    /\ sets = 0
    /\ new_count = 0
    /\ Live(cache, products[1].product_title)
    /\ cache = cache0
    /\ file = file0
    /\ file.exists

\* C14: what the file held when the invocation started is a prefix of what
\* it holds, and the entries added since are as many as the counter and as
\* the calls of Cache.set; a completed run returns that number.
C14_AppendOnly ==
    LET before == load_data(file0)
        now == load_data(file)
    IN  /\ Len(before) <= Len(now)
        /\ SubSeq(now, 1, Len(before)) = before
        /\ Len(now) - Len(before) = new_count
        /\ Len(now) - Len(before) = sets
        /\ pc = "done" => response.updated_count = Len(now) - Len(before)

\* the second run has added a record to a file that held one
C14_Witness ==
    /\ run = 2
    /\ pc = "done"
    /\ Len(load_data(file0)) >= 1
    /\ response.updated_count >= 1
    /\ Len(load_data(file)) = Len(load_data(file0)) + response.updated_count

\* the pipeline of the specification over the pages fetched: every page's
\* records are detected and persisted before the next page is fetched
RECURSIVE PerPage(_, _)
PerPage(bodies, c) ==
    IF bodies = <<>> THEN [count |-> 0, saved |-> <<>>, cache |-> c]
    ELSE LET first == Detect(ExtractCards(Head(bodies).cards).recs, c)
             rest == PerPage(Tail(bodies), first.cache)
         IN  [count |-> first.count + rest.count, saved |-> first.saved \o rest.saved,
              cache |-> rest.cache]

\* C15: whatever the source, the failures and the cache, the invocation
\* leaves the appends, the cache and the count of the pipeline that persists
\* page by page: when it completes, those of that pipeline over the pages
\* fetched; when the fetch of page p ends it, those that pipeline has made
\* by then, over the pages fetched before p.
C15_TwoPhaseIsPerPage ==
    [][/\ (pc = "process" /\ pc' = "done")
            => LET r == PerPage(Kept(source, skipped), cache0)
               IN  /\ response'.updated_count = r.count
                   /\ load_data(file') = load_data(file0) \o r.saved
                   /\ cache' = r.cache
       /\ (pc = "fetch" /\ pc' = "raised")
            => LET r == PerPage(Kept(SubSeq(source, 1, page - 1), skipped), cache0)
               IN  /\ load_data(file') = load_data(file0) \o r.saved
                   /\ cache' = r.cache]_vars

\* a is b with some of its entries left out
RECURSIVE IsSubSeq(_, _)
IsSubSeq(a, b) ==
    IF a = <<>> THEN TRUE
    ELSE IF b = <<>> THEN FALSE
    ELSE IF Head(a) = Head(b) THEN IsSubSeq(Tail(a), Tail(b))
    ELSE IsSubSeq(a, Tail(b))

\* the records this invocation has appended to the file
Appended == SubSeq(load_data(file), Len(load_data(file0)) + 1, Len(load_data(file)))

\* C16: fetch_page is called for page 1, then for the page after the one it
\* was last called for, never twice for a page; one GET at most awaits its
\* answer; a run that completes has called it for every page up to
\* page_limit; and the records appended are, in the same order, records of
\* the pages fetched taken page by page and card by card.
C16_Ordering ==
    /\ [][(pc' = "fetch" /\ issued' = 1 /\ vars' # vars)
             => page' = (IF pc = "fetch" THEN page + 1 ELSE 1)]_vars
    /\ [](/\ issued - attempt = (IF pc = "fetch" THEN 1 ELSE 0)
          /\ pc = "fetch" => page \in 1..page_limit
          /\ pc \in {"process", "done"}
                => /\ page = page_limit
                   /\ products = ScrapeAll(Kept(source, skipped))
                   /\ IsSubSeq(Appended, SubSeq(products, 1, idx - 1)))

\* a completed run appended a record of page 1 and then one of page 2
C16_Witness ==
    /\ pc = "done"
    /\ skipped = {}
    /\ Len(Appended) = 2
    /\ <<Appended[1]>> = ScrapeAll(<<source[1]>>)
    /\ <<Appended[2]>> = ScrapeAll(<<source[2]>>)
    /\ Appended[1] # Appended[2]

\* the entries of the file that have the title key
Entries(key) == {i \in 1..Len(file.data) : Loads(file.data[i]).product_title = key}

\* C17: every title with a live cache entry has an entry in the file, and
\* the cache holds the record of the last of them.
C17_CacheAgreesWithStorage ==
    \A key \in CacheKeys :
        Live(cache, key)
            => /\ Entries(key) # {}
               /\ LET last == CHOOSE i \in Entries(key) : \A j \in Entries(key) : j <= i
                  IN  cache[key].data = file.data[last]

\* after two runs the file holds a title at two prices and the cache holds
\* the later one
C17_Witness ==
    /\ pc = "done"
    /\ run = 2
    /\ \E key \in CacheKeys :
          /\ Live(cache, key)
          /\ \E i, j \in Entries(key) :
                /\ i < j
                /\ file.data[i][2] # file.data[j][2]
                /\ \A k \in Entries(key) : k <= j
                /\ cache[key].data = file.data[j]

\* C18: whenever no worker has the file open for writing, load_data can read
\* it and returns every record for which a call of save_product has returned.
C18_NoLostAppend ==
    (\A w \in Tasks : workers[w].pc # "dump")
        => /\ ~truncated
           /\ \A w \in Tasks : \A i \in 1..Len(workers[w].returned) :
                 \E j \in 1..Len(load_data(file)) :
                     load_data(file)[j] = workers[w].returned[i]

\* a request is answered whose token is not the configured one
Refused == request' # request /\ request'.token # Header(API_TOKEN)

\* no GET, no append, no Cache.set, no notification, no step of scrape_data
NoEffect ==
    UNCHANGED <<envVars, storeVars, pc, run, scrapeVars, fetchVars, loopVars, outVars,
                startVars, concVars>>

\* C19, as claimed: a request whose token is missing or differs is answered
\* 401 and has no effect.
C19_UnauthorizedIs401 == [][Refused => (request'.status = "401" /\ NoEffect)]_vars

\* C19, amended: a request whose token differs is answered 401, one without
\* the header 422, and neither has an effect.
C19_UnauthorizedNoEffect ==
    [][Refused =>
        /\ request'.status = (IF request'.token.present THEN "401" ELSE "422")
        /\ NoEffect]_vars

\* a request without the header was turned away while an invocation awaited
\* the answer to a GET of page 2, after records were saved by the run before
C19_Witness ==
    /\ request = [token |-> NoHeader, status |-> "422"]
    /\ run = 2
    /\ pc = "fetch"
    /\ page = 2
    /\ file.exists

====
